---- MODULE Spec2Model ----
(***************************************************************************)
(* A model of two mechanisms of PyO3:                                      *)
(*   - src/pyclass_init.rs: the chained object initializer                 *)
(*     (PyClassInitializer / PyNativeTypeInitializer :: into_new_object);  *)
(*   - pyo3-macros-backend/src/pyproto.rs: the #[pyproto] generator        *)
(*     (build_py_proto, impl_proto_impl, impl_normal_methods,              *)
(*     impl_proto_methods).                                                *)
(* Spec is the initializer; GenSpec is the generator.                      *)
(***************************************************************************)
EXTENDS Integers, Sequences, FiniteSets, TLC

VARIABLES
    \* ---- pyclass_init.rs ----
    phase,        \* "building" | "running" | "done" | "off"
    chain,        \* the PyClassInitializer being built: values, root level first
    supplied,     \* the chain as handed to create_cell (kept for the properties)
    target,       \* the subtype the caller passed (kept for the properties)
    stack,        \* the active into_new_object frames, innermost last
    ret,          \* the PyResult travelling back to the caller
    mem,          \* the cells of the allocated object, by offset
    dropped,      \* levels whose value was dropped by a scope exit
    allocLog,     \* the requests made to the host allocator, in order
    writeLog,     \* the ptr::write calls made, in order
    env,          \* the build and the host-native base: constant after Init
    \* ---- pyproto.rs ----
    gpc,          \* "entry" | "loop" | "emit" | "done" | "off"
    ast,          \* the impl block: trait ident and items, constant during a run
    version,      \* pyo3_build_config::get().version as <<major, minor>>
    idx,          \* position of the for loop over impls
    trait_impls,  \* token stream of impl_method_proto outputs (method names)
    py_methods,   \* Vec of ordinary method descriptors
    method_names, \* HashSet of slot-method names
    out,          \* the macro's result: Ok(tokens) or Err(message)
    first         \* the tokens of the first expansion of this impl block

allocVars == <<phase, chain, supplied, target, stack, ret, mem, dropped, allocLog, writeLog, env>>
genVars == <<gpc, ast, version, idx, trait_impls, py_methods, method_names, out, first>>
vars == <<allocVars, genVars>>

(***************************************************************************)
(* src/pyclass_init.rs                                                     *)
(***************************************************************************)

\* Longest chain of #[pyclass] levels above the host-native base.
MaxDepth == 3
\* The field values a level's struct may carry.
Payloads == {1, 2}

\* A value of the #[pyclass] type of level k (k = 1 is the class whose base is
\* the host-native type).
Value(k, x) == [ty |-> k, x |-> x]
\* A binding whose value has been moved out.
Moved == [ty |-> 0, x |-> 0]

NoResult == [kind |-> "none"]
Ok(obj) == [kind |-> "ok", obj |-> obj]
Err(msg) == [kind |-> "err", msg |-> msg]

\* The single object the host allocator can hand out.
ObjPtr == 1

\* Size in cells of the host-native base's own layout (_ob_base): the
\* universal object root is the bare header, any other native type is larger.
SizeOfBaseNative == IF env.baseIsObject THEN 1 ELSE 2

\* size_of PartiallyInitializedPyCellBase<T::BaseNativeType>: _ob_base, borrow_flag.
SizeOfPyCellBase == SizeOfBaseNative + 1

\* size_of PartiallyInitializedPyCell<T_k>: _ob_base (the base's layout), contents.
\* SizeOfPyCell(0) stands for the PyCellBase under level 1.
RECURSIVE SizeOfPyCell(_)
SizeOfPyCell(k) == IF k = 0 THEN SizeOfPyCellBase ELSE SizeOfPyCell(k - 1) + 1

\* Offset of (*base).borrow_flag: after the host-native base, for every level,
\* because T::BaseNativeType is the same type throughout a hierarchy.
BorrowFlagOffset(k) == SizeOfBaseNative

\* Faulty variant: every level casts obj to the level-1 cell layout.
ContentsOffsetShared(k) == SizeOfPyCell(0)
\* Offset of (*cell).contents for level k: after <T::BaseType>::LayoutAsBase.
ContentsOffset(k) == SizeOfPyCell(k - 1)

\* tp_basicsize of a type object: type k is the #[pyclass] of level k, a larger
\* id is a subclass defined on the host side, which adds no cells of ours.
BasicSize(t, depth) == SizeOfPyCell(depth)

\* Fresh memory from the host: the native header is the host's, the rest is
\* not initialized.
FreshObject(t, depth) ==
    [o \in 0..(BasicSize(t, depth) - 1) |->
        IF o < SizeOfBaseNative THEN [cell |-> "native", ob_type |-> t]
        ELSE [cell |-> "uninit"]]

\* Cell::new(BorrowFlag::UNUSED)
BorrowFlagCell == [cell |-> "borrow_flag", flag |-> "UNUSED"]

\* PyCellContents { value: ManuallyDrop(UnsafeCell(init)), thread_checker, dict, weakref }
PyCellContents(init) ==
    [cell |-> "contents", value |-> init, thread_checker |-> "new",
     dict |-> "new", weakref |-> "new"]

\* PyClassInitializer::new(init, super_init): Self { init, super_init }.
PyClassInitializerNew(init, super_init) == Append(super_init, init)

\* A frame of PyClassInitializer<T_k>::into_new_object after
\* `let Self { init, super_init } = self`.
Frame(self, subtype) ==
    [level |-> Len(self), init |-> self[Len(self)],
     super_init |-> SubSeq(self, 1, Len(self) - 1),
     subtype |-> subtype, obj |-> 0, pc |-> "call"]

Top == stack[Len(stack)]
SetTop(f) == [stack EXCEPT ![Len(stack)] = f]
Pop == SubSeq(stack, 1, Len(stack) - 1)

\* Faulty variant: the base's own type object is handed down instead.
SubtypeOfOwnType(f) == f.level - 1
\* The subtype handed down to super_init.into_new_object.
SubtypeForSuper(f) == f.subtype

\* What a frame's scope exit drops: the bindings it still owns.
DropsOnExit(f) == IF f.init = Moved THEN {} ELSE {f.level}

Envs ==
    {e \in [limitedApi : BOOLEAN, baseIsObject : BOOLEAN, baseTpNew : BOOLEAN,
            subtypeTpAlloc : BOOLEAN] :
        \* with abi3 a #[pyclass] cannot extend a native type other than object
        e.limitedApi => e.baseIsObject}

GenOff ==
    /\ gpc = "off"
    /\ ast = [trait |-> "none", items |-> <<>>, generics |-> ""]
    /\ version = <<0, 0>>
    /\ idx = 0
    /\ trait_impls = <<>>
    /\ py_methods = <<>>
    /\ method_names = {}
    /\ out = NoResult
    /\ first = NoResult

Init ==
    /\ phase = "building"
    /\ chain = <<>>
    /\ supplied = <<>>
    /\ target = 0
    /\ stack = <<>>
    /\ ret = NoResult
    /\ mem = <<>>
    /\ dropped = {}
    /\ allocLog = <<>>
    /\ writeLog = <<>>
    /\ env \in Envs
    /\ GenOff

\* impl From<T> for PyClassInitializer<T>: new(value, PyNativeTypeInitializer).
From ==
    /\ phase = "building"
    /\ chain = <<>>
    /\ \E x \in Payloads : chain' = PyClassInitializerNew(Value(1, x), <<>>)
    /\ UNCHANGED <<phase, supplied, target, stack, ret, mem, dropped, allocLog, writeLog, env>>
    /\ UNCHANGED genVars

\* impl From<(S, B)>: PyClassInitializer::from(base).add_subclass(sub).
FromPair ==
    /\ phase = "building"
    /\ chain = <<>>
    /\ MaxDepth >= 2
    /\ \E b \in Payloads, s \in Payloads :
        chain' = PyClassInitializerNew(Value(2, s),
                                       PyClassInitializerNew(Value(1, b), <<>>))
    /\ UNCHANGED <<phase, supplied, target, stack, ret, mem, dropped, allocLog, writeLog, env>>
    /\ UNCHANGED genVars

\* add_subclass(self, subclass_value): new(subclass_value, self).
AddSubclass ==
    /\ phase = "building"
    /\ chain # <<>>
    /\ Len(chain) < MaxDepth
    /\ \E x \in Payloads :
        chain' = PyClassInitializerNew(Value(Len(chain) + 1, x), chain)
    /\ UNCHANGED <<phase, supplied, target, stack, ret, mem, dropped, allocLog, writeLog, env>>
    /\ UNCHANGED genVars

\* create_cell: create_cell_from_subtype(py, T::type_object_raw(py)).
CreateCell ==
    /\ phase = "building"
    /\ chain # <<>>
    /\ phase' = "running"
    /\ supplied' = chain
    /\ target' = Len(chain)
    /\ stack' = <<Frame(chain, Len(chain))>>
    /\ chain' = <<>>
    /\ UNCHANGED <<ret, mem, dropped, allocLog, writeLog, env>>
    /\ UNCHANGED genVars

\* create_cell_from_subtype with the type object of a host-side subclass of T.
CreateCellFromSubtype ==
    /\ phase = "building"
    /\ chain # <<>>
    /\ phase' = "running"
    /\ supplied' = chain
    /\ target' = Len(chain) + 1
    /\ stack' = <<Frame(chain, Len(chain) + 1)>>
    /\ chain' = <<>>
    /\ UNCHANGED <<ret, mem, dropped, allocLog, writeLog, env>>
    /\ UNCHANGED genVars

\* super_init.into_new_object(py, subtype) where super_init is a PyClassInitializer.
CallSuper ==
    /\ phase = "running"
    /\ stack # <<>>
    /\ Top.pc = "call"
    /\ Top.super_init # <<>>
    /\ stack' = Append(SetTop([Top EXCEPT !.pc = "wait", !.super_init = <<>>]),
                       Frame(Top.super_init, SubtypeForSuper(Top)))
    /\ UNCHANGED <<phase, chain, supplied, target, ret, mem, dropped, allocLog, writeLog, env>>
    /\ UNCHANGED genVars

\* Faulty variant: the returned pointer is not tested with is_null().
HostAllocatesUnchecked(fn, subtype, ok) ==
    /\ allocLog' = Append(allocLog, [fn |-> fn, subtype |-> subtype, ok |-> ok])
    /\ mem' = IF ok THEN FreshObject(subtype, Len(supplied)) ELSE mem
    /\ ret' = Ok(IF ok THEN ObjPtr ELSE 0)
\* The host's answer to an allocation request: a fresh object or null.
HostAllocates(fn, subtype, ok) ==
    /\ allocLog' = Append(allocLog, [fn |-> fn, subtype |-> subtype, ok |-> ok])
    /\ IF ok
       THEN /\ mem' = FreshObject(subtype, Len(supplied))
            /\ ret' = Ok(ObjPtr)
       ELSE /\ mem' = mem
            /\ ret' = Err("api_call_failed")

\* PyNativeTypeInitializer::into_new_object, type_object == PyBaseObject_Type:
\* get_tp_alloc(subtype).unwrap_or(PyType_GenericAlloc)(subtype, 0).
NativeGenericAlloc ==
    /\ phase = "running"
    /\ stack # <<>>
    /\ Top.pc = "call"
    /\ Top.super_init = <<>>
    /\ env.baseIsObject
    /\ \E ok \in BOOLEAN :
        HostAllocates(IF env.subtypeTpAlloc THEN "tp_alloc" ELSE "PyType_GenericAlloc",
                      SubtypeForSuper(Top), ok)
    /\ stack' = SetTop([Top EXCEPT !.pc = "wait"])
    /\ UNCHANGED <<phase, chain, supplied, target, dropped, writeLog, env>>
    /\ UNCHANGED genVars

\* PyNativeTypeInitializer::into_new_object, another native base with tp_new:
\* newfunc(subtype, null, null).
NativeTpNew ==
    /\ phase = "running"
    /\ stack # <<>>
    /\ Top.pc = "call"
    /\ Top.super_init = <<>>
    /\ ~env.baseIsObject
    /\ ~env.limitedApi
    /\ env.baseTpNew
    /\ \E ok \in BOOLEAN : HostAllocates("tp_new", SubtypeForSuper(Top), ok)
    /\ stack' = SetTop([Top EXCEPT !.pc = "wait"])
    /\ UNCHANGED <<phase, chain, supplied, target, dropped, writeLog, env>>
    /\ UNCHANGED genVars

\* PyNativeTypeInitializer::into_new_object, tp_new is None.
NativeNoTpNew ==
    /\ phase = "running"
    /\ stack # <<>>
    /\ Top.pc = "call"
    /\ Top.super_init = <<>>
    /\ ~env.baseIsObject
    /\ ~env.limitedApi
    /\ ~env.baseTpNew
    /\ ret' = Err("base type without tp_new")
    /\ stack' = SetTop([Top EXCEPT !.pc = "wait"])
    /\ UNCHANGED <<phase, chain, supplied, target, mem, dropped, allocLog, writeLog, env>>
    /\ UNCHANGED genVars

\* `let obj = super_init.into_new_object(py, subtype)?` on Err: return it.
\* The frame's `init` goes out of scope.
PropagateErr ==
    /\ phase = "running"
    /\ stack # <<>>
    /\ Top.pc = "wait"
    /\ ret.kind = "err"
    /\ dropped' = dropped \cup DropsOnExit(Top)
    /\ stack' = Pop
    /\ UNCHANGED <<phase, chain, supplied, target, ret, mem, allocLog, writeLog, env>>
    /\ UNCHANGED genVars

\* On Ok(obj): ptr::write((*base).borrow_flag, Cell::new(BorrowFlag::UNUSED)).
WriteBorrowFlag ==
    /\ phase = "running"
    /\ stack # <<>>
    /\ Top.pc = "wait"
    /\ ret.kind = "ok"
    /\ mem' = [mem EXCEPT ![BorrowFlagOffset(Top.level)] = BorrowFlagCell]
    /\ writeLog' = Append(writeLog, [what |-> "borrow_flag", level |-> Top.level,
                                     at |-> BorrowFlagOffset(Top.level)])
    /\ stack' = SetTop([Top EXCEPT !.pc = "contents", !.obj = ret.obj])
    /\ ret' = NoResult
    /\ UNCHANGED <<phase, chain, supplied, target, dropped, allocLog, env>>
    /\ UNCHANGED genVars

\* Faulty variant: the cell gets a copy and the frame keeps `init`.
WriteContentsCopy ==
    /\ phase = "running"
    /\ stack # <<>>
    /\ Top.pc = "contents"
    /\ mem' = [mem EXCEPT ![ContentsOffset(Top.level)] = PyCellContents(Top.init)]
    /\ writeLog' = Append(writeLog, [what |-> "contents", level |-> Top.level,
                                     at |-> ContentsOffset(Top.level)])
    /\ stack' = SetTop([Top EXCEPT !.pc = "ret"])
    /\ UNCHANGED <<phase, chain, supplied, target, ret, dropped, allocLog, env>>
    /\ UNCHANGED genVars
\* ptr::write((*cell).contents, PyCellContents { value: ManuallyDrop(init), .. }).
\* `init` is moved into the cell.
WriteContents ==
    /\ phase = "running"
    /\ stack # <<>>
    /\ Top.pc = "contents"
    /\ mem' = [mem EXCEPT ![ContentsOffset(Top.level)] = PyCellContents(Top.init)]
    /\ writeLog' = Append(writeLog, [what |-> "contents", level |-> Top.level,
                                     at |-> ContentsOffset(Top.level)])
    /\ stack' = SetTop([Top EXCEPT !.pc = "ret", !.init = Moved])
    /\ UNCHANGED <<phase, chain, supplied, target, ret, dropped, allocLog, env>>
    /\ UNCHANGED genVars

\* Ok(obj): the frame returns; what it still owns is dropped.
ReturnOk ==
    /\ phase = "running"
    /\ stack # <<>>
    /\ Top.pc = "ret"
    /\ ret' = Ok(Top.obj)
    /\ dropped' = dropped \cup DropsOnExit(Top)
    /\ stack' = Pop
    /\ UNCHANGED <<phase, chain, supplied, target, mem, allocLog, writeLog, env>>
    /\ UNCHANGED genVars

\* create_cell_from_subtype: .map(|obj| obj as _) and return to the caller.
Finish ==
    /\ phase = "running"
    /\ stack = <<>>
    /\ phase' = "done"
    /\ UNCHANGED <<chain, supplied, target, stack, ret, mem, dropped, allocLog, writeLog, env>>
    /\ UNCHANGED genVars

Next ==
    \/ From
    \/ FromPair
    \/ AddSubclass
    \/ CreateCell
    \/ CreateCellFromSubtype
    \/ CallSuper
    \/ NativeGenericAlloc
    \/ NativeTpNew
    \/ NativeNoTpNew
    \/ PropagateErr
    \/ WriteBorrowFlag
    \/ WriteContents
    \/ ReturnOk
    \/ Finish

Spec == Init /\ [][Next]_vars

(***************************************************************************)
(* pyo3-macros-backend/src/pyproto.rs                                      *)
(***************************************************************************)

\* Most items an impl block carries.
MaxItems == 3

\* const PY39: PythonVersion { major: 3, minor: 9 }
PY39 == <<3, 9>>
\* The interpreter versions a build is configured for.
Versions == {<<2, 10>>, <<3, 9>>, <<3, 10>>, <<4, 0>>}

\* Faulty variant: only the minor numbers are compared.
VersionLeMinorOnly(a, b) == a[2] <= b[2]
\* PythonVersion's derived ordering: major first, then minor.
VersionLe(a, b) == a[1] < b[1] \/ (a[1] = b[1] /\ a[2] <= b[2])

\* TokenStream::default()
NoTokens == [kind |-> "empty"]

\* ---- defs::Proto (the protocol catalog) ----
SlotDef(name, slot, slot_impl) == [name |-> name, slot |-> slot, slot_impl |-> slot_impl]
PyMethod(name, can_coexist) == [name |-> name, can_coexist |-> can_coexist]

BUFFER ==
    [name |-> "Buffer",
     methods |-> {"bf_getbuffer", "bf_releasebuffer"},
     py_methods |-> {},
     slot_defs |-> <<SlotDef("bf_getbuffer", "Py_bf_getbuffer", "getbuffer"),
                     SlotDef("bf_releasebuffer", "Py_bf_releasebuffer", "releasebuffer")>>]
MAPPING ==
    [name |-> "Mapping",
     methods |-> {"__getitem__", "__setitem__", "__delitem__"},
     py_methods |-> {PyMethod("__reversed__", FALSE)},
     slot_defs |-> <<SlotDef("__getitem__", "Py_mp_subscript", "getitem"),
                     SlotDef("__setitem__", "Py_mp_ass_subscript", "setitem"),
                     SlotDef("__delitem__", "Py_mp_ass_subscript", "delitem")>>]
NUM ==
    [name |-> "Number",
     methods |-> {"__add__"},
     py_methods |-> {PyMethod("__radd__", TRUE)},
     slot_defs |-> <<SlotDef("__add__", "Py_nb_add", "add")>>]

\* The catalogs modelled here; the other seven families differ only in their tables.
Protos == {BUFFER, MAPPING, NUM}
ProtoNamed(n) == CHOOSE pr \in Protos : pr.name = n

\* Proto::get_proto / Proto::get_method: an Option, as a set of at most one.
GetProto(proto, ident) == {m \in proto.methods : m = ident}
GetMethod(proto, ident) == {m \in proto.py_methods : m.name = ident}

\* Proto::slot_defs(method_names): the catalog's slot definitions, in catalog
\* order, of the implemented methods.
SlotDefs(proto, names) == SelectSeq(proto.slot_defs, LAMBDA d : d.name \in names)

\* ---- build_py_proto: the match on the trait path's last segment ----
RecognisedTraits ==
    {"PyObjectProtocol", "PyAsyncProtocol", "PyMappingProtocol", "PyIterProtocol",
     "PyContextProtocol", "PySequenceProtocol", "PyNumberProtocol", "PyDescrProtocol",
     "PyBufferProtocol", "PyGCProtocol"}
ProtoNameOf(ident) ==
    CASE ident = "PyObjectProtocol" -> "Object"
      [] ident = "PyAsyncProtocol" -> "Async"
      [] ident = "PyMappingProtocol" -> "Mapping"
      [] ident = "PyIterProtocol" -> "Iter"
      [] ident = "PyContextProtocol" -> "Context"
      [] ident = "PySequenceProtocol" -> "Sequence"
      [] ident = "PyNumberProtocol" -> "Number"
      [] ident = "PyDescrProtocol" -> "Descr"
      [] ident = "PyBufferProtocol" -> "Buffer"
      [] ident = "PyGCProtocol" -> "GC"
CurProto == ProtoNamed(ProtoNameOf(ast.trait))

\* ---- the impl blocks handed to the macro ----
\* A method item: its name, and how the helpers outside this file answer for it:
\* impl_method_proto (sig_ok), FnSpec::parse (parse_ok), fn_spec.tp is
\* FnType::Fn (receiver), pymethod::impl_py_method_def (def_ok).
Method(name) ==
    [kind |-> "Method", name |-> name, sig_ok |-> TRUE, parse_ok |-> TRUE,
     receiver |-> TRUE, def_ok |-> TRUE]
\* An associated type or const of the impl block.
TypeItem == [Method("Result") EXCEPT !.kind = "Type"]

ItemsFor(ident) ==
    CASE ident = "PyBufferProtocol" ->
            {Method("bf_getbuffer"), [Method("bf_getbuffer") EXCEPT !.sig_ok = FALSE],
             Method("bf_releasebuffer"), Method("frobnicate"), TypeItem}
      [] ident = "PyMappingProtocol" ->
            {Method("__getitem__"), Method("__setitem__"), Method("__delitem__"),
             Method("__reversed__"), [Method("__reversed__") EXCEPT !.receiver = FALSE],
             Method("frobnicate")}
      [] ident = "PyNumberProtocol" ->
            {Method("__add__"), Method("__radd__"),
             [Method("__radd__") EXCEPT !.parse_ok = FALSE],
             [Method("__radd__") EXCEPT !.def_ok = FALSE],
             Method("frobnicate"), TypeItem}
      [] OTHER -> {TypeItem}

\* Item lists of at most MaxItems items; an impl block names each item once.
RECURSIVE ItemSeqs(_, _)
ItemSeqs(S, n) ==
    IF n = 0 THEN {<<>>}
    ELSE LET shorter == ItemSeqs(S, n - 1)
         IN shorter \cup
            {Append(q, it) : q \in {r \in shorter : Len(r) = n - 1},
                             it \in S}
DistinctNames(q) == \A i, j \in DOMAIN q : q[i].name = q[j].name => i = j

Asts ==
    UNION {{[trait |-> t, items |-> q, generics |-> ""] :
                q \in {r \in ItemSeqs(ItemsFor(t), MaxItems) : DistinctNames(r)}} :
           t \in {"PyBufferProtocol", "PyMappingProtocol", "PyNumberProtocol",
                  "PyFooProtocol", "none"}}

AllocOff ==
    /\ phase = "off"
    /\ chain = <<>>
    /\ supplied = <<>>
    /\ target = 0
    /\ stack = <<>>
    /\ ret = NoResult
    /\ mem = <<>>
    /\ dropped = {}
    /\ allocLog = <<>>
    /\ writeLog = <<>>
    /\ env = [limitedApi |-> FALSE, baseIsObject |-> TRUE, baseTpNew |-> TRUE,
              subtypeTpAlloc |-> TRUE]

GenInit ==
    /\ AllocOff
    /\ gpc = "entry"
    /\ ast \in Asts
    /\ version \in Versions
    /\ idx = 0
    /\ trait_impls = <<>>
    /\ py_methods = <<>>
    /\ method_names = {}
    /\ out = NoResult
    /\ first = NoResult

\* build_py_proto: ast.trait_ is None.
BuildPyProtoNoTrait ==
    /\ gpc = "entry"
    /\ ast.trait = "none"
    /\ out' = Err("#[pyproto] can only be used with protocol trait implementations")
    /\ gpc' = "done"
    /\ UNCHANGED <<ast, version, idx, trait_impls, py_methods, method_names, first>>
    /\ UNCHANGED allocVars

\* build_py_proto: the last path segment is none of the ten protocol traits.
BuildPyProtoUnrecognised ==
    /\ gpc = "entry"
    /\ ast.trait # "none"
    /\ ast.trait \notin RecognisedTraits
    /\ out' = Err("unrecognised trait for #[pyproto]")
    /\ gpc' = "done"
    /\ UNCHANGED <<ast, version, idx, trait_impls, py_methods, method_names, first>>
    /\ UNCHANGED allocVars

\* build_py_proto: the trait is recognised; impl_proto_impl starts its loop.
BuildPyProto ==
    /\ gpc = "entry"
    /\ ast.trait \in RecognisedTraits
    /\ gpc' = "loop"
    /\ idx' = 1
    /\ trait_impls' = <<>>
    /\ py_methods' = <<>>
    /\ method_names' = {}
    /\ UNCHANGED <<ast, version, out, first>>
    /\ UNCHANGED allocVars

\* method_names.insert(met.sig.ident.to_string())
HashSetInsert(set, name) == set \cup {name}

\* The ordinary-method descriptor of impl_py_method_def(ty, &fn_spec, flags).
MethodDef(m) ==
    [name |-> m.name, flags |-> IF m.can_coexist THEN "METH_COEXIST" ELSE "None"]

\* One pass of the loop body of impl_proto_impl over `item`: the loop's three
\* accumulators afterwards, or the error the body returns.
LoopState(ti, pm, mn, err) ==
    [trait_impls |-> ti, py_methods |-> pm, method_names |-> mn, err |-> err]
SlotPart(proto, item, st) ==
    IF GetProto(proto, item.name) = {} THEN st
    ELSE IF ~item.sig_ok THEN [st EXCEPT !.err = "impl_method_proto"]
    ELSE [st EXCEPT !.trait_impls = Append(@, item.name),
                    !.method_names = HashSetInsert(@, item.name)]
NonSlotPart(proto, item, st) ==
    IF st.err # "" \/ GetMethod(proto, item.name) = {} THEN st
    ELSE IF ~item.parse_ok THEN [st EXCEPT !.err = "FnSpec::parse"]
    ELSE IF ~item.receiver
         THEN [st EXCEPT !.err = "expected method with receiver for #[pyproto] method"]
    ELSE IF ~item.def_ok THEN [st EXCEPT !.err = "impl_py_method_def"]
    ELSE LET m == CHOOSE x \in GetMethod(proto, item.name) : TRUE
         IN [st EXCEPT !.py_methods = Append(@, MethodDef(m))]
LoopBody(proto, item, st) ==
    IF item.kind # "Method" THEN st
    ELSE NonSlotPart(proto, item, SlotPart(proto, item, st))

AfterItem == LoopBody(CurProto, ast.items[idx],
                      LoopState(trait_impls, py_methods, method_names, ""))

\* impl_proto_impl: one loop iteration that completes.
ImplItem ==
    /\ gpc = "loop"
    /\ idx <= Len(ast.items)
    /\ AfterItem.err = ""
    /\ trait_impls' = AfterItem.trait_impls
    /\ py_methods' = AfterItem.py_methods
    /\ method_names' = AfterItem.method_names
    /\ idx' = idx + 1
    /\ UNCHANGED <<gpc, ast, version, out, first>>
    /\ UNCHANGED allocVars

\* impl_proto_impl: one loop iteration that returns an error (`?`, bail_spanned!).
ImplItemErr ==
    /\ gpc = "loop"
    /\ idx <= Len(ast.items)
    /\ AfterItem.err # ""
    /\ out' = Err(AfterItem.err)
    /\ gpc' = "done"
    /\ UNCHANGED <<ast, version, idx, trait_impls, py_methods, method_names, first>>
    /\ UNCHANGED allocVars

\* Faulty variant: the is_empty() early return is missing.
ImplNormalMethodsAlways(methods, proto) ==
    [kind |-> "methods_impl", proto |-> proto.name, METHODS |-> methods]
\* impl_normal_methods
ImplNormalMethods(methods, proto) ==
    IF methods = <<>> THEN NoTokens
    ELSE [kind |-> "methods_impl", proto |-> proto.name, METHODS |-> methods]

\* The PyType_Slot literal of one slot definition.
SlotToken(def) == [slot |-> def.slot, pfunc |-> def.slot_impl]
SlotTokens(defs) == [i \in DOMAIN defs |-> SlotToken(defs[i])]

\* Faulty variant: one slot entry per implemented method, in the order the
\* methods were declared.
ImplProtoMethodsInDeclaredOrder(names, proto, ver) ==
    LET decl == SelectSeq(trait_impls, LAMBDA n : n \in names)
        defs == [i \in DOMAIN decl |->
                    CHOOSE d \in {proto.slot_defs[j] : j \in DOMAIN proto.slot_defs} :
                        d.name = decl[i]]
    IN IF names = {} \/ defs = <<>> THEN NoTokens
       ELSE [kind |-> "slots_impl", proto |-> proto.name,
             buffer_procs |-> VersionLe(ver, PY39) /\ proto.name = "Buffer",
             slots |-> SlotTokens(defs)]
\* impl_proto_methods
ImplProtoMethods(names, proto, ver) ==
    IF names = {} THEN NoTokens
    ELSE LET maybe_buffer_methods == VersionLe(ver, PY39) /\ proto.name = "Buffer"
             tokens == SlotTokens(SlotDefs(proto, names))
         IN IF tokens = <<>> THEN NoTokens
            ELSE [kind |-> "slots_impl", proto |-> proto.name,
                  buffer_procs |-> maybe_buffer_methods,
                  slots |-> tokens]

\* impl_proto_impl after the loop, and the rest of build_py_proto: the tokens
\* are returned and the lifetime 'p is attached to the impl.
Emit ==
    /\ gpc = "loop"
    /\ idx > Len(ast.items)
    /\ out' = [kind |-> "ok",
               trait_impls |-> trait_impls,
               normal_methods |-> ImplNormalMethods(py_methods, CurProto),
               protocol_methods |-> ImplProtoMethods(method_names, CurProto, version)]
    /\ ast' = [ast EXCEPT !.generics = "'p"]
    /\ gpc' = "done"
    /\ UNCHANGED <<version, idx, trait_impls, py_methods, method_names, first>>
    /\ UNCHANGED allocVars

\* The items of q in the order given by the permutation f of its indices.
Permuted(q, f) == [i \in DOMAIN q |-> q[f[i]]]
IndexPermutations(n) == {f \in [1..n -> 1..n] : \A i, j \in 1..n : f[i] = f[j] => i = j}

\* The crate is compiled again with the same items, possibly written in
\* another order: the macro runs from the start on the same build.
Rebuild ==
    /\ gpc = "done"
    /\ first = NoResult
    /\ first' = out
    /\ \E f \in IndexPermutations(Len(ast.items)) :
        ast' = [ast EXCEPT !.items = Permuted(ast.items, f), !.generics = ""]
    /\ gpc' = "entry"
    /\ idx' = 0
    /\ trait_impls' = <<>>
    /\ py_methods' = <<>>
    /\ method_names' = {}
    /\ out' = NoResult
    /\ UNCHANGED version
    /\ UNCHANGED allocVars

GenNext ==
    \/ BuildPyProtoNoTrait
    \/ BuildPyProtoUnrecognised
    \/ BuildPyProto
    \/ ImplItem
    \/ ImplItemErr
    \/ Emit
    \/ Rebuild

GenSpec == GenInit /\ [][GenNext]_vars

(***************************************************************************)
(* Properties of the initializer (checked under Spec)                      *)
(***************************************************************************)

Returned == phase = "done"
ReturnedOk == phase = "done" /\ ret.kind = "ok"
Depth == Len(supplied)

\* The offsets of the object that hold a content cell, and the k-th of them.
ContentOffsets == {o \in DOMAIN mem : mem[o].cell = "contents"}
KthContentOffset(k) ==
    CHOOSE o \in ContentOffsets : Cardinality({p \in ContentOffsets : p < o}) = k - 1

\* The entries of writeLog that write a borrow flag / a content cell.
FlagWrites == {i \in DOMAIN writeLog : writeLog[i].what = "borrow_flag"}
ContentWrites == {i \in DOMAIN writeLog : writeLog[i].what = "contents"}

AllocSucceeded == \E i \in DOMAIN allocLog : allocLog[i].ok
NoConstructorSlot == ~env.baseIsObject /\ ~env.baseTpNew

\* C1: into_new_object returns either an error or a pointer to an object in
\* which no cell is left unwritten and the content cells, in layout order, hold
\* exactly the values supplied for levels 1..d.
C1_EveryLevelHoldsItsValue ==
    /\ Returned => ret.kind \in {"ok", "err"}
    /\ ReturnedOk =>
        /\ ret.obj = ObjPtr
        /\ \A o \in DOMAIN mem : mem[o].cell # "uninit"
        /\ Cardinality(ContentOffsets) = Depth
        /\ \A k \in 1..Depth : mem[KthContentOffset(k)] = PyCellContents(supplied[k])

\* A three-level chain with different values at its levels was allocated.
C1_Witness ==
    /\ ReturnedOk
    /\ Depth = 3
    /\ supplied[1].x # supplied[2].x
    /\ supplied[2].x # supplied[3].x

\* C2 (as claimed): a successful into_new_object writes the borrow flag exactly
\* once, at the level right above the host-native root.
C2_BorrowFlagWrittenOnce ==
    ReturnedOk =>
        /\ Cardinality(FlagWrites) = 1
        /\ \A i \in FlagWrites : writeLog[i].level = 1

\* The error a failing terminal step returns.
TerminalError ==
    IF NoConstructorSlot THEN Err("base type without tp_new") ELSE Err("api_call_failed")

\* C3: when the terminal host-native step fails, nothing is ever written, every
\* level still on the stack is waiting for its base and will pass the error on,
\* and the caller receives the terminal step's error.
C3_TerminalFailureAbortsChain ==
    /\ ~AllocSucceeded => (writeLog = <<>> /\ mem = <<>>)
    /\ ret.kind = "err" =>
        /\ ~AllocSucceeded
        /\ ret = TerminalError
        /\ \A i \in DOMAIN stack : stack[i].pc = "wait"
    /\ (Returned /\ ~AllocSucceeded) => ret = TerminalError

\* A three-level chain whose host allocation returned null has unwound fully.
C3_Witness ==
    /\ Returned
    /\ Depth = 3
    /\ allocLog # <<>>
    /\ ~AllocSucceeded
    /\ ret = Err("api_call_failed")

\* The places that own the value of level k: a frame's `init`, a frame's
\* super_init, a content cell.
Holders(k) ==
    Cardinality({i \in DOMAIN stack : stack[i].init = supplied[k]})
    + Cardinality({i \in DOMAIN stack :
                     \E j \in DOMAIN stack[i].super_init : stack[i].super_init[j] = supplied[k]})
    + Cardinality({o \in ContentOffsets : mem[o].value = supplied[k]})

\* C9: every supplied value always has exactly one owner or has been dropped,
\* never both; after a successful into_new_object each value is owned by
\* exactly one content cell, none was dropped by a scope exit, and the chain
\* was consumed.
C9_ValuesOwnedByCells ==
    /\ phase \in {"running", "done"} =>
        /\ chain = <<>>
        /\ \A k \in 1..Depth : Holders(k) + (IF k \in dropped THEN 1 ELSE 0) = 1
    /\ ReturnedOk =>
        /\ dropped = {}
        /\ \A k \in 1..Depth :
            Cardinality({o \in ContentOffsets : mem[o].value = supplied[k]}) = 1

\* A two-level allocation succeeded.
C9_Witness ==
    /\ ReturnedOk
    /\ Depth = 2
    /\ Cardinality(ContentOffsets) = 2

\* What C10 says besides the number of requests: every request is for the
\* caller's subtype, no cell is written before the allocation succeeded, and
\* the i-th content cell written is level i's.
C10_Rest ==
    /\ \A i \in DOMAIN allocLog : allocLog[i].subtype = target
    /\ writeLog # <<>> => AllocSucceeded
    /\ \A i \in ContentWrites :
        writeLog[i].level = Cardinality({j \in ContentWrites : j <= i})
    /\ ReturnedOk => Cardinality(ContentWrites) = Depth

\* C10 (as claimed): every invocation makes exactly one host allocation request.
C10_ExactlyOneRequest ==
    /\ Len(allocLog) <= 1
    /\ Returned => Len(allocLog) = 1
    /\ C10_Rest

\* C10 (amended): at most one request is made, and exactly one unless the
\* non-universal native base has no constructor slot, where none is made.
C10_OneRequestUnlessNoConstructor ==
    /\ Len(allocLog) <= 1
    /\ Returned => (Len(allocLog) = 1 <=> ~NoConstructorSlot)
    /\ C10_Rest

\* A three-level chain was allocated for a host-side subclass of the leaf type.
C10_Witness ==
    /\ ReturnedOk
    /\ Depth = 3
    /\ target = 4
    /\ allocLog = <<[fn |-> "tp_new", subtype |-> 4, ok |-> TRUE]>>

(***************************************************************************)
(* Properties of the generator (checked under GenSpec)                     *)
(***************************************************************************)

Done == gpc = "done"
Generated == Done /\ out.kind = "ok"
Recognised == ast.trait \in RecognisedTraits

\* The names of the methods the impl block declares.
DeclaredNames ==
    {ast.items[i].name : i \in {j \in DOMAIN ast.items : ast.items[j].kind = "Method"}}
DeclaredSlotNames == DeclaredNames \cap CurProto.methods
DeclaredNonSlotNames == DeclaredNames \cap {m.name : m \in CurProto.py_methods}
UnknownNames == DeclaredNames \ (DeclaredSlotNames \cup DeclaredNonSlotNames)

\* What the expansion contains.
MethodArrayEmitted == Generated /\ out.normal_methods # NoTokens
SlotArrayEmitted == Generated /\ out.protocol_methods # NoTokens
SideTableEmitted == SlotArrayEmitted /\ out.protocol_methods.buffer_procs
SlotArray == IF SlotArrayEmitted THEN out.protocol_methods.slots ELSE <<>>
SlotIds == {SlotArray[i].slot : i \in DOMAIN SlotArray}
BufferSlotIds == {"Py_bf_getbuffer", "Py_bf_releasebuffer"}

\* The host version is 3.9 or older.
AtOrBelowCutoff == version[1] < 3 \/ (version[1] = 3 /\ version[2] <= 9)

BufferDeclared == Generated /\ ast.trait = "PyBufferProtocol" /\ DeclaredSlotNames # {}

C5_UnknownMethodRejected ==
    (Done /\ Recognised /\ UnknownNames # {}) => out.kind = "err"

\* Two declared names whose slot definitions name the same slot id.
SlotOfName(n) ==
    {CurProto.slot_defs[i].slot :
        i \in {j \in DOMAIN CurProto.slot_defs : CurProto.slot_defs[j].name = n}}
DuplicateSlotDeclared ==
    \E a, b \in DeclaredSlotNames : a # b /\ SlotOfName(a) \cap SlotOfName(b) # {}

\* C6 (as claimed): the slot array has at most one entry per slot id, and two
\* declared names mapping to one slot id are rejected.
C6_SlotIdsUnique ==
    /\ Generated => Cardinality(SlotIds) = Len(SlotArray)
    /\ (Done /\ Recognised /\ DuplicateSlotDeclared) => out.kind = "err"

\* C7: in a successful expansion the method-table array is emitted exactly when
\* a declared method has an ordinary-method descriptor, the slot array exactly
\* when a declared method has a slot entry; an emitted array is never empty;
\* the buffer side-table is never emitted without the slot array; with no
\* declared method nothing is emitted.
C7_ArraysEmittedIffNonEmpty ==
    Generated =>
        /\ MethodArrayEmitted <=> DeclaredNonSlotNames # {}
        /\ MethodArrayEmitted =>
            {out.normal_methods.METHODS[i].name : i \in DOMAIN out.normal_methods.METHODS}
                = DeclaredNonSlotNames
        /\ SlotArrayEmitted <=> SlotDefs(CurProto, DeclaredNames) # <<>>
        /\ SlotArrayEmitted => SlotArray # <<>>
        /\ DeclaredNames = {} =>
            (out.normal_methods = NoTokens /\ out.protocol_methods = NoTokens)

\* An impl block whose only catalogued method is an ordinary one was expanded:
\* a method array and no slot array.
C7_Witness ==
    /\ Generated
    /\ MethodArrayEmitted
    /\ ~SlotArrayEmitted
    /\ Len(ast.items) >= 2

\* C8: expanding the same items again, in any order, for the same version
\* gives the same outcome and the same slot array (and buffer side-table).
C8_SlotTableOrderIndependent ==
    (Done /\ first # NoResult) =>
        /\ out.kind = first.kind
        /\ out.kind = "ok" => out.protocol_methods = first.protocol_methods

\* Three mapping slot methods were expanded twice, in two different orders.
C8_Witness ==
    /\ Generated
    /\ first # NoResult
    /\ Len(SlotArray) = 3
    /\ out.trait_impls # first.trait_impls

====
